---- MODULE Spec2Model ----
(***************************************************************************)
(* Model of the folder backup tool (backup_win/utils.py: BackupManager)    *)
(* and of the checksum manifest tools (src/utils.py: write_md5_from_dict,  *)
(* compare_md5).                                                           *)
(*                                                                         *)
(* Time is counted in ticks, TicksPerSecond ticks to the second, from the  *)
(* instant of the initial state; modification times before that instant    *)
(* are negative.  File names and glob patterns are sequences of one-char   *)
(* strings, paths are sequences of names.                                  *)
(***************************************************************************)
EXTENDS Integers, Sequences, FiniteSets, TLC

\* ------------------------------------------------------------------ bounds
MaxSub == 2            \* immediate children of the source root
MaxFiles == 2          \* regular files inside one subfolder
MaxClock == 2          \* last instant (in ticks) at which a run may start
MaxFaults == 2         \* failures of the environment (I/O errors, corruption)
TicksPerSecond == 2    \* clock resolution below strftime's %S
MaxPaths == 3          \* distinct relative paths of a manifest
MaxDigests == 3        \* distinct digest values of a manifest

\* ------------------------------------------------------- program constants
SecondsPerDay == 86400     \* 24 * 60 * 60
DefaultAgeDays == 30       \* config.get("backup_age_days", 30)

Runs == {1, 2}             \* BackupManager instances
SubIds == 1..MaxSub
FileIds == 1..MaxFiles

\* --------------------------------------------------------------- sequences
SeqToSet(s) == {s[k] : k \in DOMAIN s}

RECURSIVE SetToSeq(_)
\* The elements of a finite set of integers in increasing order.
SetToSeq(S) ==
    IF S = {} THEN <<>>
    ELSE LET m == CHOOSE x \in S : \A y \in S : x <= y
         IN <<m>> \o SetToSeq(S \ {m})

Count(s, x) == Cardinality({k \in DOMAIN s : s[k] = x})

\* ------------------------------------------------------------------ names
\* The name of child i of the source root: i times the letter a.
Name(i) == [k \in 1..i |-> "a"]
\* The source root is the directory s; pathlib parts below the root.
SrcDirParts == << <<"s">> >>
SubfolderParts(i) == SrcDirParts \o <<Name(i)>>

RECURSIVE FnMatch(_, _)
\* fnmatch.fnmatchcase on one name: * is any run of characters, ? any one.
FnMatch(s, p) ==
    IF p = <<>> THEN s = <<>>
    ELSE IF Head(p) = "*"
         THEN FnMatch(s, Tail(p)) \/ (s # <<>> /\ FnMatch(Tail(s), p))
         ELSE /\ s # <<>>
              /\ (Head(p) = "?" \/ Head(p) = Head(s))
              /\ FnMatch(Tail(s), Tail(p))

RECURSIVE SplitSlash(_, _)
\* PurePath's parsing of a relative pattern: split at "/", drop empty parts.
SplitSlash(p, cur) ==
    IF p = <<>> THEN (IF cur = <<>> THEN <<>> ELSE <<cur>>)
    ELSE IF Head(p) = "/"
         THEN (IF cur = <<>> THEN <<>> ELSE <<cur>>) \o SplitSlash(Tail(p), <<>>)
         ELSE SplitSlash(Tail(p), Append(cur, Head(p)))

PatternParts(p) == SplitSlash(p, <<>>)

\* PurePath.match raises ValueError("empty pattern") for a pattern without parts.
MatchRaises(p) == PatternParts(p) = <<>>

PathMatch_NameOnly(parts, p) ==
    /\ Len(PatternParts(p)) = 1
    /\ FnMatch(parts[Len(parts)], PatternParts(p)[1])

\* PurePath.match(pattern) for a relative pattern: the pattern's parts are
\* matched, from the right, against the path's last parts.
PathMatch(parts, p) ==
    LET pp == PatternParts(p)
    IN /\ Len(pp) >= 1
       /\ Len(pp) <= Len(parts)
       /\ \A k \in 1..Len(pp) :
              FnMatch(parts[Len(parts) - Len(pp) + k], pp[k])

\* ------------------------------------------------------------------ files
\* A regular file: its modification time and its content.
NoFile == [there |-> FALSE, mtime |-> 0, data |-> 0]
File(m, d) == [there |-> TRUE, mtime |-> m, data |-> d]
\* The content written into file j of subfolder i, and what a copy that the
\* storage corrupted holds instead.
Data(i, j) == 10 * i + j
Corrupt(d) == d + 100
\* hashlib.md5 over the whole content, read in 4096-byte chunks.
Md5(d) == <<"md5", d>>

\* strftime("%Y%m%d_%H%M%S"): the instant cut to whole seconds.
Strftime(t) == t \div TicksPerSecond

\* dict.update
Update(cfg, ov) ==
    [k \in DOMAIN cfg \cup DOMAIN ov |-> IF k \in DOMAIN ov THEN ov[k] ELSE cfg[k]]
\* dict.get(k, default)
Get(cfg, k, default) == IF k \in DOMAIN cfg THEN cfg[k] ELSE default
EmptyDict == [k \in {} |-> TRUE]

VARIABLES
    clock,               \* datetime.now(), in ticks
    src, src0,           \* the source tree now and in the initial state
    dst, dstDirs,        \* files and directories under dst_dir
    logDirs,             \* the log directories that exist
    faults,              \* the failures of the environment so far
    config_file,         \* the content of the configuration file
    config_overrides,    \* per run: the constructor's config_overrides
    arrival,             \* per run: the instant its process is started
    pc,                  \* per run: where the run stands
    timestamp, config, backup_age_seconds,          \* BackupManager fields
    log_file,            \* per run: the directory that holds its log file
    start_time, path_subfolders, idx,               \* run_backup locals
    successful_backups, failed_backups,
    all_files, fpos,                                \* backup_subfolder locals
    report,                                         \* the report file written
    scanAborted, probeErr,                          \* history of the scan
    rmtreeCalled, rmtreeRaised, verifiedEq, mismatched, wrote,  \* history
    born,                \* per run: the instant its manager was constructed
    md5_dict,            \* the two digest mappings (path -> digest)
    md5_file,            \* the two manifest files: written or not, and lines
    data,                \* the rows that read_md5_file returned
    df_md5, df_md5_diff, \* compare_md5: the table and its mismatching rows
    outcome,             \* what the manifest tool has done and printed
    tree,                \* the two trees that are digested: path -> file
    hashed,              \* the trees whose digest mapping has been computed
    cli,                 \* where the command line's main stands
    srcExists            \* the directory named by src_dir exists

fsVars == <<clock, src, src0, dst, dstDirs, logDirs, faults>>
inVars == <<config_file, config_overrides, arrival>>
mgrVars == <<timestamp, config, backup_age_seconds, log_file>>
runVars == <<pc, start_time, path_subfolders, idx, successful_backups,
             failed_backups, all_files, fpos, report>>
histVars == <<scanAborted, probeErr, rmtreeCalled, rmtreeRaised, verifiedEq,
              mismatched, wrote>>
\* born is written by the constructor alone.
cliVars == <<cli, srcExists>>
backupVars == <<fsVars, inVars, mgrVars, runVars, histVars, born, cliVars>>
manifestVars == <<md5_dict, md5_file, data, df_md5, df_md5_diff, outcome,
                  tree, hashed>>
vars == <<backupVars, manifestVars>>

\* n more failures of the environment happen in this step.
Fault(n) == faults + n <= MaxFaults /\ faults' = faults + n

\* ------------------------------------------------------------ the scan
IsDir(i) == src[i].kind = "dir"
FilesOf(i) == IF IsDir(i) THEN {j \in FileIds : src[i].files[j].there} ELSE {}

\* The window in ticks.
WindowTicks(r) == backup_age_seconds[r] * TicksPerSecond

should_backup_subfolder_NoRecursion(r, i, now, err) ==
    /\ ~err
    /\ \A j \in FilesOf(i) \cap {1} : ~(now - src[i].files[j].mtime < WindowTicks(r))

should_backup_subfolder_EdgeSkips(r, i, now, err) ==
    /\ ~err
    /\ \A j \in FilesOf(i) : ~(now - src[i].files[j].mtime <= WindowTicks(r))

\* should_backup_subfolder: err says that probing a file of the subfolder
\* raised; a file modified within the window disqualifies the subfolder.
should_backup_subfolder(r, i, now, err) ==
    /\ ~err
    /\ \A j \in FilesOf(i) : ~(now - src[i].files[j].mtime < WindowTicks(r))

\* any(path_subfolder.match(pattern) for pattern in excluded)
Excluded(r, i) ==
    \E p \in config[r].excluded_patterns : PathMatch(SubfolderParts(i), p)

\* The scan raises inside its try block (and returns []) when match meets an
\* empty pattern before a matching one: certainly so when no other pattern
\* matches some directory.
ScanMustAbort(r) ==
    \E i \in SubIds :
        /\ IsDir(i)
        /\ \E p \in config[r].excluded_patterns : MatchRaises(p)
        /\ ~Excluded(r, i)

get_subfolders_to_backup_NoExclusion(r, now, abort, errs) ==
    IF abort THEN <<>>
    ELSE SetToSeq({i \in SubIds : /\ IsDir(i)
                                  /\ should_backup_subfolder(r, i, now, i \in errs)})

get_subfolders_to_backup_ErrorAborts(r, now, abort, errs) ==
    IF abort \/ errs # {} THEN <<>>
    ELSE SetToSeq({i \in SubIds : /\ IsDir(i)
                                  /\ ~Excluded(r, i)
                                  /\ should_backup_subfolder(r, i, now, FALSE)})

\* get_subfolders_to_backup: the immediate subdirectories, in iteration
\* order (taken to be the order of the indices), that are not excluded and
\* are old enough; [] when the iteration raised.
get_subfolders_to_backup(r, now, abort, errs) ==
    IF abort THEN <<>>
    ELSE SetToSeq({i \in SubIds : /\ IsDir(i)
                                  /\ ~Excluded(r, i)
                                  /\ should_backup_subfolder(r, i, now, i \in errs)})

\* ------------------------------------------------------- the constructor
\* BackupManager.__init__: timestamp, load_config, setup_logging (which
\* creates the configuration file's log_dir), then the overrides.
Construct(r) ==
    /\ pc[r] = "new"
    /\ clock' = IF arrival[r] > clock THEN arrival[r] ELSE clock
    /\ timestamp' = [timestamp EXCEPT ![r] = Strftime(clock')]
    /\ born' = [born EXCEPT ![r] = clock']
    /\ logDirs' = logDirs \cup {config_file.log_dir}
    /\ log_file' = [log_file EXCEPT ![r] = config_file.log_dir]
    /\ config' = [config EXCEPT ![r] = Update(config_file, config_overrides[r])]
    /\ backup_age_seconds' = [backup_age_seconds EXCEPT ![r] =
           Get(config'[r], "backup_age_days", DefaultAgeDays) * SecondsPerDay]
    /\ pc' = [pc EXCEPT ![r] = "ready"]
    /\ UNCHANGED <<src, src0, dst, dstDirs, faults, inVars, histVars>>
    /\ UNCHANGED <<manifestVars, cliVars>>
    /\ UNCHANGED <<start_time, path_subfolders, idx, successful_backups,
                   failed_backups, all_files, fpos, report>>

\* --------------------------------------------------------- run_backup
Cur(r) == path_subfolders[r][idx[r]]
\* Where the loop of run_backup goes after the current candidate.
AdvPc(r) == IF idx[r] = Len(path_subfolders[r]) THEN "report" ELSE "next"

\* The destination of file j of subfolder i (j = 0: the subfolder itself):
\* dst_dir / timestamp / relative_path / relative file path.
DstKey_NoTimestamp(r, i, j) == <<0, i, j>>

DstKey(r, i, j) == <<timestamp[r], i, j>>

\* backup_subfolder goes on inside the same candidate.
Continue(r, p, files, pos) ==
    /\ pc' = [pc EXCEPT ![r] = p]
    /\ all_files' = [all_files EXCEPT ![r] = files]
    /\ fpos' = [fpos EXCEPT ![r] = pos]
    /\ UNCHANGED <<idx, successful_backups, failed_backups>>

RecordOutcome_DeleteAlways(r, ok) ==
    /\ successful_backups' =
           IF ok THEN [successful_backups EXCEPT ![r] = Append(@, Cur(r))]
           ELSE successful_backups
    /\ failed_backups' =
           IF ok THEN failed_backups
           ELSE [failed_backups EXCEPT ![r] = Append(@, Cur(r))]
    /\ pc' = [pc EXCEPT ![r] =
           IF "delete_source" \notin DOMAIN config[r] THEN (IF ok THEN "raised" ELSE AdvPc(r))
           ELSE IF config[r].delete_source THEN "delete"
           ELSE AdvPc(r)]
    /\ idx' = [idx EXCEPT ![r] = IF pc'[r] \in {"next", "report"} THEN @ + 1 ELSE @]
    /\ all_files' = [all_files EXCEPT ![r] = <<>>]
    /\ fpos' = [fpos EXCEPT ![r] = 0]

\* backup_subfolder has returned ok for the current candidate: run_backup
\* appends it to its list; after a success it reads config["delete_source"]
\* (a KeyError leaves run_backup) and goes on to delete or to the next one.
RecordOutcome(r, ok) ==
    /\ successful_backups' =
           IF ok THEN [successful_backups EXCEPT ![r] = Append(@, Cur(r))]
           ELSE successful_backups
    /\ failed_backups' =
           IF ok THEN failed_backups
           ELSE [failed_backups EXCEPT ![r] = Append(@, Cur(r))]
    /\ pc' = [pc EXCEPT ![r] =
           IF ~ok THEN AdvPc(r)
           ELSE IF "delete_source" \notin DOMAIN config[r] THEN "raised"
           ELSE IF config[r].delete_source THEN "delete"
           ELSE AdvPc(r)]
    /\ idx' = [idx EXCEPT ![r] = IF pc'[r] \in {"next", "report"} THEN @ + 1 ELSE @]
    /\ all_files' = [all_files EXCEPT ![r] = <<>>]
    /\ fpos' = [fpos EXCEPT ![r] = 0]

EndOfCopy_AlwaysVerify(r, files) ==
    IF "verify_copy" \notin DOMAIN config[r] THEN RecordOutcome(r, FALSE)
    ELSE IF files # <<>> THEN Continue(r, "verify", files, 1)
    ELSE RecordOutcome(r, TRUE)

\* backup_subfolder after its copy loop: config["verify_copy"] (a KeyError is
\* caught as this candidate's failure), then the verification pass if any.
EndOfCopy(r, files) ==
    IF "verify_copy" \notin DOMAIN config[r] THEN RecordOutcome(r, FALSE)
    ELSE IF config[r].verify_copy /\ files # <<>> THEN Continue(r, "verify", files, 1)
    ELSE RecordOutcome(r, TRUE)

\* run_backup up to its loop: start_time, then the scan.  Probing a file of
\* a subfolder may raise (errs); iterating the source root may raise (abort).
RunBackup(r) ==
    /\ pc[r] = "ready"
    /\ UNCHANGED <<born, manifestVars, cliVars>>
    /\ start_time' = [start_time EXCEPT ![r] = clock]
    /\ IF "excluded_patterns" \notin DOMAIN config[r]
       THEN /\ pc' = [pc EXCEPT ![r] = "raised"]
            /\ UNCHANGED <<path_subfolders, idx, scanAborted, probeErr, faults>>
       ELSE \E abort \in (IF ScanMustAbort(r) THEN {TRUE} ELSE BOOLEAN) :
            \E errs \in SUBSET {i \in SubIds : FilesOf(i) # {} /\ ~Excluded(r, i)} :
               /\ abort => errs = {}
               /\ Fault(Cardinality(errs) +
                        (IF abort /\ ~ScanMustAbort(r) THEN 1 ELSE 0))
               /\ path_subfolders' = [path_subfolders EXCEPT ![r] =
                      get_subfolders_to_backup(r, clock, abort, errs)]
               /\ pc' = [pc EXCEPT ![r] =
                      IF path_subfolders'[r] = <<>> THEN "returned" ELSE "next"]
               /\ idx' = [idx EXCEPT ![r] = 1]
               /\ scanAborted' = [scanAborted EXCEPT ![r] = abort]
               /\ probeErr' = [probeErr EXCEPT ![r] = errs]
    /\ UNCHANGED <<clock, src, src0, dst, dstDirs, logDirs, inVars, mgrVars>>
    /\ UNCHANGED <<successful_backups, failed_backups, all_files, fpos, report>>
    /\ UNCHANGED <<rmtreeCalled, rmtreeRaised, verifiedEq, mismatched, wrote>>

\* backup_subfolder up to its copy loop: the destination directory is made
\* (mkdir may raise) and the regular files of the subfolder are listed.
BeginSubfolder(r) ==
    /\ pc[r] = "next"
    /\ UNCHANGED <<born, manifestVars, cliVars>>
    /\ LET i == Cur(r)
           files == SetToSeq(FilesOf(i))
       IN \/ /\ Fault(1)
             /\ RecordOutcome(r, FALSE)
             /\ UNCHANGED <<dstDirs, wrote>>
          \/ /\ UNCHANGED faults
             /\ dstDirs' = dstDirs \cup {DstKey(r, i, 0)}
             /\ wrote' = [wrote EXCEPT ![r] = @ \cup {DstKey(r, i, 0)}]
             /\ IF files = <<>> THEN EndOfCopy(r, files)
                ELSE Continue(r, "copy", files, 1)
    /\ UNCHANGED <<clock, src, src0, dst, logDirs, inVars, mgrVars>>
    /\ UNCHANGED <<start_time, path_subfolders, report>>
    /\ UNCHANGED <<scanAborted, probeErr, rmtreeCalled, rmtreeRaised, verifiedEq,
                   mismatched>>

CopyFile_Rollback(r) ==
    /\ pc[r] = "copy"
    /\ UNCHANGED <<born, manifestVars, cliVars>>
    /\ LET i == Cur(r)
           j == all_files[r][fpos[r]]
           f == src[i].files[j]
           present == src[i].kind = "dir" /\ f.there
       IN \/ /\ Fault(IF present THEN 1 ELSE 0)
             /\ RecordOutcome(r, FALSE)
             /\ dst' = [k \in {k \in DOMAIN dst : k[2] # i} |-> dst[k]]
             /\ UNCHANGED wrote
          \/ /\ present
             /\ \E d \in {f.data, Corrupt(f.data)} :
                    /\ Fault(IF d = f.data THEN 0 ELSE 1)
                    /\ dst' = (DstKey(r, i, j) :> File(f.mtime, d)) @@ dst
             /\ wrote' = [wrote EXCEPT ![r] = @ \cup {DstKey(r, i, j)}]
             /\ IF fpos[r] = Len(all_files[r]) THEN EndOfCopy(r, all_files[r])
                ELSE Continue(r, "copy", all_files[r], fpos[r] + 1)
    /\ UNCHANGED <<clock, src, src0, dstDirs, logDirs, inVars, mgrVars>>
    /\ UNCHANGED <<start_time, path_subfolders, report>>
    /\ UNCHANGED <<scanAborted, probeErr, rmtreeCalled, rmtreeRaised, verifiedEq,
                   mismatched>>

\* One turn of the copy loop: shutil.copy2 of one file.  It may raise (always
\* so when the source file is gone), and the copy written may be corrupted.
CopyFile(r) ==
    /\ pc[r] = "copy"
    /\ UNCHANGED <<born, manifestVars, cliVars>>
    /\ LET i == Cur(r)
           j == all_files[r][fpos[r]]
           f == src[i].files[j]
           present == src[i].kind = "dir" /\ f.there
       IN \/ /\ Fault(IF present THEN 1 ELSE 0)
             /\ RecordOutcome(r, FALSE)
             /\ UNCHANGED <<dst, wrote>>
          \/ /\ present
             /\ \E d \in {f.data, Corrupt(f.data)} :
                    /\ Fault(IF d = f.data THEN 0 ELSE 1)
                    /\ dst' = (DstKey(r, i, j) :> File(f.mtime, d)) @@ dst
             /\ wrote' = [wrote EXCEPT ![r] = @ \cup {DstKey(r, i, j)}]
             /\ IF fpos[r] = Len(all_files[r]) THEN EndOfCopy(r, all_files[r])
                ELSE Continue(r, "copy", all_files[r], fpos[r] + 1)
    /\ UNCHANGED <<clock, src, src0, dstDirs, logDirs, inVars, mgrVars>>
    /\ UNCHANGED <<start_time, path_subfolders, report>>
    /\ UNCHANGED <<scanAborted, probeErr, rmtreeCalled, rmtreeRaised, verifiedEq,
                   mismatched>>

\* verify_files: both digests are computed and compared; any exception
\* (a file that is gone or cannot be read) gives False.
\* Both files of the pair are there to be read.
Readable(r, i, j) ==
    src[i].kind = "dir" /\ src[i].files[j].there /\ DstKey(r, i, j) \in DOMAIN dst

verify_files_SizeOnly(r, i, j) ==
    {"error"} \cup (IF Readable(r, i, j) THEN {"equal"} ELSE {})

verify_files(r, i, j) ==
    {"error"} \cup
    (IF ~Readable(r, i, j) THEN {}
     ELSE IF Md5(src[i].files[j].data) = Md5(dst[DstKey(r, i, j)].data) THEN {"equal"}
     ELSE {"differ"})

VerifyFile_ErrorSkips(r) ==
    /\ pc[r] = "verify"
    /\ UNCHANGED <<born, manifestVars, cliVars>>
    /\ LET i == Cur(r)
           j == all_files[r][fpos[r]]
       IN \E res \in verify_files(r, i, j) :
            /\ Fault(IF res = "error" /\ Readable(r, i, j) THEN 1 ELSE 0)
            /\ verifiedEq' = IF res = "equal"
                             THEN [verifiedEq EXCEPT ![r] = @ \cup {<<i, j>>}]
                             ELSE verifiedEq
            /\ mismatched' = IF res = "differ"
                             THEN [mismatched EXCEPT ![r] = @ \cup {i}]
                             ELSE mismatched
            /\ IF res = "differ" THEN RecordOutcome(r, FALSE)
               ELSE IF fpos[r] = Len(all_files[r]) THEN RecordOutcome(r, TRUE)
               ELSE Continue(r, "verify", all_files[r], fpos[r] + 1)
    /\ UNCHANGED <<clock, src, src0, dst, dstDirs, logDirs, inVars, mgrVars>>
    /\ UNCHANGED <<start_time, path_subfolders, report>>
    /\ UNCHANGED <<scanAborted, probeErr, rmtreeCalled, rmtreeRaised, wrote>>

\* One turn of the verification loop.
VerifyFile(r) ==
    /\ pc[r] = "verify"
    /\ UNCHANGED <<born, manifestVars, cliVars>>
    /\ LET i == Cur(r)
           j == all_files[r][fpos[r]]
       IN \E res \in verify_files(r, i, j) :
            /\ Fault(IF res = "error" /\ Readable(r, i, j) THEN 1 ELSE 0)
            /\ verifiedEq' = IF res = "equal"
                             THEN [verifiedEq EXCEPT ![r] = @ \cup {<<i, j>>}]
                             ELSE verifiedEq
            /\ mismatched' = IF res = "differ"
                             THEN [mismatched EXCEPT ![r] = @ \cup {i}]
                             ELSE mismatched
            /\ IF res # "equal" THEN RecordOutcome(r, FALSE)
               ELSE IF fpos[r] = Len(all_files[r]) THEN RecordOutcome(r, TRUE)
               ELSE Continue(r, "verify", all_files[r], fpos[r] + 1)
    /\ UNCHANGED <<clock, src, src0, dst, dstDirs, logDirs, inVars, mgrVars>>
    /\ UNCHANGED <<start_time, path_subfolders, report>>
    /\ UNCHANGED <<scanAborted, probeErr, rmtreeCalled, rmtreeRaised, wrote>>

Gone == [kind |-> "gone", files |-> [j \in FileIds |-> NoFile], dirs |-> {}]

SafeDelete_RaiseAborts(r) ==
    /\ pc[r] = "delete"
    /\ UNCHANGED <<born, manifestVars, cliVars>>
    /\ LET i == Cur(r)
       IN /\ rmtreeCalled' = [rmtreeCalled EXCEPT ![r] = @ \cup {i}]
          /\ \/ /\ IsDir(i)
                /\ src' = [src EXCEPT ![i] = Gone]
                /\ pc' = [pc EXCEPT ![r] = AdvPc(r)]
                /\ UNCHANGED <<rmtreeRaised, faults>>
             \/ /\ Fault(IF IsDir(i) THEN 1 ELSE 0)
                /\ \E S \in SUBSET FilesOf(i) :
                      src' = [src EXCEPT ![i].files =
                                 [j \in FileIds |-> IF j \in S THEN NoFile ELSE @[j]]]
                /\ rmtreeRaised' = [rmtreeRaised EXCEPT ![r] = @ \cup {i}]
                /\ pc' = [pc EXCEPT ![r] = "raised"]
    /\ idx' = [idx EXCEPT ![r] = @ + 1]
    /\ UNCHANGED <<clock, src0, dst, dstDirs, logDirs, inVars, mgrVars>>
    /\ UNCHANGED <<start_time, path_subfolders, successful_backups,
                   failed_backups, all_files, fpos, report>>
    /\ UNCHANGED <<scanAborted, probeErr, verifiedEq, mismatched, wrote>>

\* safe_delete_subfolder: shutil.rmtree either removes the whole subfolder or
\* raises after removing some of its files (none when the subfolder is gone);
\* the exception is caught and logged.
SafeDelete(r) ==
    /\ pc[r] = "delete"
    /\ UNCHANGED <<born, manifestVars, cliVars>>
    /\ LET i == Cur(r)
       IN /\ rmtreeCalled' = [rmtreeCalled EXCEPT ![r] = @ \cup {i}]
          /\ \/ /\ IsDir(i)
                /\ src' = [src EXCEPT ![i] = Gone]
                /\ UNCHANGED <<rmtreeRaised, faults>>
             \/ /\ Fault(IF IsDir(i) THEN 1 ELSE 0)
                /\ \E S \in SUBSET FilesOf(i) :
                      src' = [src EXCEPT ![i].files =
                                 [j \in FileIds |-> IF j \in S THEN NoFile ELSE @[j]]]
                /\ rmtreeRaised' = [rmtreeRaised EXCEPT ![r] = @ \cup {i}]
    /\ pc' = [pc EXCEPT ![r] = AdvPc(r)]
    /\ idx' = [idx EXCEPT ![r] = @ + 1]
    /\ UNCHANGED <<clock, src0, dst, dstDirs, logDirs, inVars, mgrVars>>
    /\ UNCHANGED <<start_time, path_subfolders, successful_backups,
                   failed_backups, all_files, fpos, report>>
    /\ UNCHANGED <<scanAborted, probeErr, verifiedEq, mismatched, wrote>>

ReportText_ListsAll(r, end_time) ==
    [start_time |-> start_time[r],
     end_time |-> end_time,
     duration |-> end_time - start_time[r],
     successful |-> Len(successful_backups[r]),
     failed |-> Len(failed_backups[r]),
     failed_files |-> successful_backups[r] \o failed_backups[r]]

\* The lines of the report that generate_report builds.
ReportText(r, end_time) ==
    [start_time |-> start_time[r],
     end_time |-> end_time,
     duration |-> end_time - start_time[r],
     successful |-> Len(successful_backups[r]),
     failed |-> Len(failed_backups[r]),
     failed_files |-> failed_backups[r]]

\* generate_report: end time, duration, the two counts and the failed paths,
\* written to log_dir / <timestamp>_report.txt; open raises when the
\* directory does not exist, and run_backup re-raises.
GenerateReport(r) ==
    /\ pc[r] = "report"
    /\ UNCHANGED <<born, manifestVars, cliVars>>
    /\ \E t \in {clock, clock + 1} :
        /\ clock' = t
        /\ IF config[r].log_dir \in logDirs
           THEN /\ report' = [report EXCEPT ![r] = Append(@, ReportText(r, t))]
                /\ pc' = [pc EXCEPT ![r] = "returned"]
           ELSE /\ pc' = [pc EXCEPT ![r] = "raised"]
                /\ UNCHANGED report
    /\ UNCHANGED <<src, src0, dst, dstDirs, logDirs, faults, inVars, mgrVars,
                   histVars>>
    /\ UNCHANGED <<start_time, path_subfolders, idx, successful_backups,
                   failed_backups, all_files, fpos>>

RunStep(r) ==
    \/ Construct(r)
    \/ RunBackup(r)
    \/ BeginSubfolder(r)
    \/ CopyFile(r)
    \/ VerifyFile(r)
    \/ SafeDelete(r)
    \/ GenerateReport(r)

\* ------------------------------------------------------------ manifests
\* Digests and paths are strings of characters.
Hex == <<"1", "2", "3", "4", "5", "6", "7", "8", "9">>
Letters == <<"a", "b", "c", "d", "e", "f", "g", "h", "i">>
DigestOf(d) == <<Hex[d]>>
PathOf(k) == <<Letters[k]>>
Whitespace == {" ", "\n"}

RECURSIVE SeqOf(_)
\* The elements of a finite set, one after the other.
SeqOf(S) ==
    IF S = {} THEN <<>>
    ELSE LET x == CHOOSE y \in S : TRUE
         IN <<x>> \o SeqOf(S \ {x})

\* write_md5_from_dict: one line "<md5_checksum>  <file_path>\n" per item.
write_md5_from_dict(d) ==
    LET items == SeqOf(DOMAIN d)
    IN [k \in 1..Len(items) |->
           d[items[k]] \o <<" ", " ">> \o items[k] \o <<"\n">>]

RECURSIVE FindSep(_, _)
\* The position, from i on, of the first two consecutive spaces; 0 if none.
FindSep(s, i) ==
    IF i + 1 > Len(s) THEN 0
    ELSE IF s[i] = " " /\ s[i + 1] = " " THEN i
    ELSE FindSep(s, i + 1)

\* line.split("  ", 1)
Split(line) ==
    LET i == FindSep(line, 1)
    IN IF i = 0 THEN <<line>>
       ELSE <<SubSeq(line, 1, i - 1), SubSeq(line, i + 2, Len(line))>>

RECURSIVE LStrip(_)
LStrip(s) == IF s # <<>> /\ Head(s) \in Whitespace THEN LStrip(Tail(s)) ELSE s
RECURSIVE RStrip(_)
RStrip(s) ==
    IF s # <<>> /\ s[Len(s)] \in Whitespace THEN RStrip(SubSeq(s, 1, Len(s) - 1))
    ELSE s
\* str.strip()
Strip(s) == RStrip(LStrip(s))

\* read_md5_file raises (a ValueError on unpacking) on a line without the
\* separator.
ReadRaises(lines) == \E k \in DOMAIN lines : Len(Split(lines[k])) < 2
\* read_md5_file: one row per line, both fields stripped.
read_md5_file(lines) ==
    [k \in DOMAIN lines |->
        [md5 |-> Strip(Split(lines[k])[1]), file |-> Strip(Split(lines[k])[2])]]

\* The value pandas puts where a side of the outer join has no row.
NaN == <<"N", "a", "N">>

\* DataFrame.merge(on="file", how="outer"): one row for every pair of rows
\* with the same file, and one for every row without a partner.
Merge(df_1, df_2) ==
    LET both == {kk \in (DOMAIN df_1) \X (DOMAIN df_2) : df_1[kk[1]].file = df_2[kk[2]].file}
        left == {<<k, 0>> : k \in {k \in DOMAIN df_1 : \A kk \in both : kk[1] # k}}
        right == {<<0, k>> : k \in {k \in DOMAIN df_2 : \A kk \in both : kk[2] # k}}
        rows == SeqOf(both \cup left \cup right)
    IN [n \in DOMAIN rows |->
           [file |-> IF rows[n][1] # 0 THEN df_1[rows[n][1]].file
                     ELSE df_2[rows[n][2]].file,
            md5_1 |-> IF rows[n][1] # 0 THEN df_1[rows[n][1]].md5 ELSE NaN,
            md5_2 |-> IF rows[n][2] # 0 THEN df_2[rows[n][2]].md5 ELSE NaN]]

Differs_SkipAbsent(a, b) == a # NaN /\ b # NaN /\ a # b

\* df_md5["md5_1"] != df_md5["md5_2"], element by element: NaN differs from
\* everything.
Differs(a, b) == a = NaN \/ b = NaN \/ a # b

RECURSIVE DiffRows(_)
\* df_md5[df_md5["md5_1"] != df_md5["md5_2"]]: the rows that differ, in order.
DiffRows(df) ==
    IF df = <<>> THEN <<>>
    ELSE (IF Differs(Head(df).md5_1, Head(df).md5_2) THEN <<Head(df)>> ELSE <<>>)
         \o DiffRows(Tail(df))

\* One call of write_md5_from_dict, on mapping k.
WriteMd5FromDict(k) ==
    /\ ~md5_file[k].exists
    /\ md5_file' = [md5_file EXCEPT ![k] =
           [exists |-> TRUE, lines |-> write_md5_from_dict(md5_dict[k])]]
    /\ UNCHANGED <<md5_dict, data, df_md5, df_md5_diff, outcome, tree, hashed>>
    /\ UNCHANGED backupVars

\* read_md5_file on the first manifest file.
ReadMd5File ==
    /\ md5_file[1].exists
    /\ outcome = "none"
    /\ IF ReadRaises(md5_file[1].lines)
       THEN outcome' = "raised" /\ UNCHANGED data
       ELSE outcome' = "read" /\ data' = read_md5_file(md5_file[1].lines)
    /\ UNCHANGED <<md5_dict, md5_file, df_md5, df_md5_diff, tree, hashed>>
    /\ UNCHANGED backupVars

\* compare_md5 on the two manifest files: the frame of a file without lines
\* has no column "file", and merge raises KeyError.
CompareMd5 ==
    /\ md5_file[1].exists /\ md5_file[2].exists
    /\ outcome = "none"
    /\ IF \/ ReadRaises(md5_file[1].lines) \/ ReadRaises(md5_file[2].lines)
          \/ md5_file[1].lines = <<>> \/ md5_file[2].lines = <<>>
       THEN outcome' = "raised" /\ UNCHANGED <<df_md5, df_md5_diff>>
       ELSE /\ df_md5' = Merge(read_md5_file(md5_file[1].lines),
                               read_md5_file(md5_file[2].lines))
            /\ df_md5_diff' = DiffRows(df_md5')
            /\ outcome' = IF df_md5_diff' # <<>> THEN "failed" ELSE "passed"
    /\ UNCHANGED <<md5_dict, md5_file, data, tree, hashed>>
    /\ UNCHANGED backupVars

\* A regular file of a tree: its content, and whether md5sum can read it.
TreeFile(d, ok) == [data |-> d, readable |-> ok]

\* calculate_md5_md5sum_batch over the regular files t of an existing root:
\* a file whose digest raises is logged and left out of the mapping.
calculate_md5_md5sum_batch(t) ==
    [p \in {q \in DOMAIN t : t[q].readable} |-> DigestOf(t[p].data)]

\* run_md5_compare digests tree 1, then tree 2.
CalculateMd5Batch(k) ==
    /\ k \notin hashed
    /\ k = 2 => 1 \in hashed
    /\ md5_dict' = [md5_dict EXCEPT ![k] = calculate_md5_md5sum_batch(tree[k])]
    /\ hashed' = hashed \cup {k}
    /\ UNCHANGED <<md5_file, data, df_md5, df_md5_diff, outcome, tree>>
    /\ UNCHANGED backupVars

\* run_md5_compare writes the two mappings once both are computed.
WriteManifest(k) == hashed = 1..2 /\ WriteMd5FromDict(k)

\* ------------------------------------------------------ initial states
\* Exclusion patterns, as written in the configuration.
PatA == <<"a">>
PatAStar == <<"a", "*">>
PatAQ == <<"a", "?">>
PatB == <<"b">>
PatSrcStar == <<"s", "/", "*">>
PatSrcA == <<"s", "/", "a">>
PatOtherA == <<"x", "/", "a">>
PatEmpty == <<>>

BaseConfig == [src_dir |-> "s", dst_dir |-> "d", log_dir |-> "L1"]
\* An optional key: left out, or set to one of the values of S.
Opt(k, S) == {EmptyDict} \cup {[x \in {k} |-> v] : v \in S}

ConfigChoices(patSets, ages) ==
    {Update(Update(Update(Update(BaseConfig, e), v), d), a) :
        e \in Opt("excluded_patterns", patSets),
        v \in Opt("verify_copy", BOOLEAN),
        d \in Opt("delete_source", BOOLEAN),
        a \in Opt("backup_age_days", ages)}

\* The window, in ticks, that a manager built from cfg uses.
WindowOf(cfg) ==
    Get(cfg, "backup_age_days", DefaultAgeDays) * SecondsPerDay * TicksPerSecond
\* Modification times around the window: older than it at every instant of a
\* scan, exactly as old as it at instant 0, and younger at every instant.
MtimeOld(cfg) == 0 - WindowOf(cfg) - 1
MtimeEdge(cfg) == 0 - WindowOf(cfg)
MtimeRecent(cfg) == 0 - WindowOf(cfg) + MaxClock + 2

\* A child of the source root that is a regular file.
RootFile == [kind |-> "file", files |-> [j \in FileIds |-> NoFile], dirs |-> {}]
\* A child that is a directory holding the files F; mt[j] is the
\* modification time of file j; dirs are the nested directories that hold
\* no file.
Dir(i, F, mt) ==
    [kind |-> "dir",
     files |-> [j \in FileIds |-> IF j \in F THEN File(mt[j], Data(i, j)) ELSE NoFile],
     dirs |-> {}]
\* The child i of a given shape.
Child(i, sh) == IF sh.dir THEN Dir(i, sh.F, sh.mt) ELSE RootFile
FileShape == [dir |-> FALSE, F |-> {}, mt |-> [j \in FileIds |-> 0]]
DirShape(F, mt) == [dir |-> TRUE, F |-> F, mt |-> mt]
AllOld(cfg) == [j \in FileIds |-> MtimeOld(cfg)]

\* The children a run is tried on: a regular file, a directory holding the
\* first n files, all of them old, and a directory whose last file is recent.
Shapes(cfg) ==
    {FileShape} \cup
    {DirShape(1..n, AllOld(cfg)) : n \in 0..MaxFiles} \cup
    {DirShape(FileIds, [AllOld(cfg) EXCEPT ![MaxFiles] = MtimeRecent(cfg)])}

\* The children a scan is tried on: a regular file, and a directory holding
\* any of the files, all old but at most one, which is recent or exactly as
\* old as the window.
ScanShapes(cfg) ==
    {FileShape} \cup
    {DirShape(F, AllOld(cfg)) : F \in SUBSET FileIds} \cup
    {DirShape(F, [AllOld(cfg) EXCEPT ![j0] = m]) :
        F \in {G \in SUBSET FileIds : G # {}}, j0 \in FileIds,
        m \in {MtimeEdge(cfg), MtimeRecent(cfg)}}

Trees(cfg) == {[i \in SubIds |-> Child(i, sh[i])] : sh \in [SubIds -> Shapes(cfg)]}

\* The trees a scan is tried on: all children but two at most are
\* directories that hold every file, all old.
ScanTrees(cfg) ==
    {[i \in SubIds |-> Child(i, sh[i])] :
        sh \in {t \in [SubIds -> {x \in ScanShapes(cfg) :
                      \A j \in FileIds : j \notin x.F => x.mt[j] = MtimeOld(cfg)}] :
                  Cardinality({i \in SubIds : t[i] # DirShape(FileIds, AllOld(cfg))}) <= 2}}

InitRest ==
    /\ clock = 0
    /\ src0 = src
    /\ dst = [k \in {} |-> NoFile]
    /\ dstDirs = {}
    /\ logDirs = {}
    /\ pc = [r \in Runs |-> "new"]
    /\ timestamp = [r \in Runs |-> 0]
    /\ config = [r \in Runs |-> EmptyDict]
    /\ backup_age_seconds = [r \in Runs |-> 0]
    /\ log_file = [r \in Runs |-> "none"]
    /\ start_time = [r \in Runs |-> 0]
    /\ path_subfolders = [r \in Runs |-> <<>>]
    /\ idx = [r \in Runs |-> 0]
    /\ successful_backups = [r \in Runs |-> <<>>]
    /\ failed_backups = [r \in Runs |-> <<>>]
    /\ all_files = [r \in Runs |-> <<>>]
    /\ fpos = [r \in Runs |-> 0]
    /\ report = [r \in Runs |-> <<>>]
    /\ scanAborted = [r \in Runs |-> FALSE]
    /\ probeErr = [r \in Runs |-> {}]
    /\ rmtreeCalled = [r \in Runs |-> {}]
    /\ rmtreeRaised = [r \in Runs |-> {}]
    /\ verifiedEq = [r \in Runs |-> {}]
    /\ mismatched = [r \in Runs |-> {}]
    /\ wrote = [r \in Runs |-> {}]
    /\ born = [r \in Runs |-> 0]

\* The manager is used as a library: there is no command line, and the
\* source root exists.
CliIdle == cli = "none" /\ srcExists = TRUE

\* No tree is digested: the digest mappings are given.
TreesIdle == tree = [k \in 1..2 |-> EmptyDict] /\ hashed = {}

\* The manifest tools are not in use.
ManifestIdle ==
    /\ md5_dict = [k \in 1..2 |-> EmptyDict]
    /\ md5_file = [k \in 1..2 |-> [exists |-> FALSE, lines |-> <<>>]]
    /\ data = <<>>
    /\ df_md5 = <<>>
    /\ df_md5_diff = <<>>
    /\ outcome = "none"
    /\ TreesIdle

\* The configurations a run is tried on: every optional key is set, or one
\* of excluded_patterns, verify_copy and delete_source is left out.
RunConfigs ==
    {c \in ConfigChoices({{}, {PatA}}, {1}) :
        /\ "backup_age_days" \in DOMAIN c
        /\ Cardinality(DOMAIN c) >= 6
        /\ Cardinality(DOMAIN c) = 6 => Get(c, "excluded_patterns", {}) = {}}

\* One run: a configuration file that leaves out at most one optional key,
\* a window of one day, and possibly a log_dir override.
Init ==
    /\ config_file \in RunConfigs
    /\ src \in Trees(config_file)
    /\ config_overrides \in
           {[r \in Runs |-> IF r = 1 THEN o ELSE EmptyDict] :
               o \in {EmptyDict, [log_dir |-> "L2"]}}
    /\ arrival = [r \in Runs |-> 0]
    /\ faults = 0
    /\ InitRest
    /\ ManifestIdle
    /\ CliIdle

Next == RunStep(1)

Spec == Init /\ [][Next]_vars

\* Two runs against the same source and destination, started at any two
\* instants (run 1 being the one started no later), in an environment that
\* does not fail.
TwoRunConfigs ==
    {c \in ConfigChoices({{}}, {1}) :
        /\ Cardinality(DOMAIN c) = 7
        /\ c.verify_copy}

InitTwoRuns ==
    /\ config_file \in TwoRunConfigs
    /\ src = [i \in SubIds |-> Dir(i, FileIds, AllOld(config_file))]
    /\ config_overrides = [r \in Runs |-> EmptyDict]
    /\ arrival \in {a \in [Runs -> 0..MaxClock] : a[1] <= a[2]}
    /\ faults = MaxFaults
    /\ InitRest
    /\ ManifestIdle
    /\ CliIdle

NextTwoRuns == \E r \in Runs : RunStep(r)

SpecTwoRuns == InitTwoRuns /\ [][NextTwoRuns]_vars

\* The scan alone, on every tree of ScanTrees: with a window of one day and
\* no pattern, any one pattern, or the empty pattern beside one that matches
\* every name; and without patterns with a window of no or of thirty days.
ScanPatternSets ==
    {{}} \cup {{p} : p \in {PatA, PatAStar, PatAQ, PatB, PatSrcStar, PatSrcA,
                             PatOtherA, PatEmpty}}
         \cup {{PatEmpty, PatAStar}}

ScanConfigs ==
    {c \in ConfigChoices(ScanPatternSets, {0, 1}) :
        /\ "verify_copy" \in DOMAIN c /\ c.verify_copy
        /\ "delete_source" \in DOMAIN c /\ ~c.delete_source
        /\ "excluded_patterns" \notin DOMAIN c => "backup_age_days" \notin DOMAIN c
        /\ Get(c, "backup_age_days", 0) # 1 => Get(c, "excluded_patterns", {}) = {}}

InitScan ==
    /\ config_file \in ScanConfigs
    /\ src \in ScanTrees(config_file)
    /\ config_overrides = [r \in Runs |-> EmptyDict]
    /\ arrival \in {[r \in Runs |-> t] : t \in {0, MaxClock}}
    /\ faults = 0
    /\ InitRest
    /\ ManifestIdle
    /\ CliIdle

NextScan == Construct(1) \/ RunBackup(1)

SpecScan == InitScan /\ [][NextScan]_vars

\* The backup tool is not in use.
BackupIdle ==
    /\ config_file = BaseConfig
    /\ src = [i \in SubIds |-> RootFile]
    /\ config_overrides = [r \in Runs |-> EmptyDict]
    /\ arrival = [r \in Runs |-> 0]
    /\ faults = 0
    /\ InitRest
    /\ CliIdle

\* The digest mappings over the paths P.
Dicts(P) == UNION {[S -> {DigestOf(d) : d \in 1..MaxDigests}] : S \in SUBSET P}
PlainPaths == {PathOf(k) : k \in 1..MaxPaths}
\* Paths with spaces: in the middle, doubled, leading and trailing.
SpacedPaths ==
    {<<"a">>, <<"a", " ", "b">>, <<"a", " ", " ", "b">>, <<" ", "a">>, <<"a", " ">>}

\* Two mappings over plain paths are written and the files compared.
InitCompare ==
    /\ BackupIdle
    /\ md5_dict \in [1..2 -> Dicts(PlainPaths)]
    /\ md5_file = [k \in 1..2 |-> [exists |-> FALSE, lines |-> <<>>]]
    /\ data = <<>>
    /\ df_md5 = <<>>
    /\ df_md5_diff = <<>>
    /\ outcome = "none"
    /\ TreesIdle

NextCompare == (\E k \in 1..2 : WriteMd5FromDict(k)) \/ CompareMd5

SpecCompare == InitCompare /\ [][NextCompare]_vars

\* One mapping, over paths with and without spaces, is written and read back.
InitRoundTrip ==
    /\ BackupIdle
    /\ md5_dict \in {[k \in 1..2 |-> IF k = 1 THEN d ELSE EmptyDict] :
                        d \in Dicts(SpacedPaths \cup {PathOf(MaxPaths)})}
    /\ md5_file = [k \in 1..2 |-> [exists |-> FALSE, lines |-> <<>>]]
    /\ data = <<>>
    /\ df_md5 = <<>>
    /\ df_md5_diff = <<>>
    /\ outcome = "none"
    /\ TreesIdle

NextRoundTrip == WriteMd5FromDict(1) \/ ReadMd5File

SpecRoundTrip == InitRoundTrip /\ [][NextRoundTrip]_vars

\* run_backup has come to an end, by return or by exception.
Ended(r) == pc[r] \in {"returned", "raised"}

\* One run on subfolders that hold all the files or none, and possibly a
\* nested directory without files.
LayoutTrees(cfg) ==
    {[i \in SubIds |-> [Dir(i, F[i], AllOld(cfg)) EXCEPT !.dirs = D[i]]] :
        F \in [SubIds -> {{}, FileIds}], D \in [SubIds -> SUBSET {1}]}

InitLayout ==
    /\ config_file \in {c \in RunConfigs : Cardinality(DOMAIN c) = 7}
    /\ src \in LayoutTrees(config_file)
    /\ config_overrides = [r \in Runs |-> EmptyDict]
    /\ arrival = [r \in Runs |-> 0]
    /\ faults = MaxFaults - 1
    /\ InitRest
    /\ ManifestIdle
    /\ CliIdle

NextLayout == RunStep(1)

SpecLayout == InitLayout /\ [][NextLayout]_vars

\* What another process writes into file j of subfolder i.
Rewritten(i, j) == Data(i, j) + 1000

\* Another process creates or modifies a file inside the subfolder that the
\* run is working on, after backup_subfolder has listed its files.
Writer ==
    /\ pc[1] \in {"copy", "verify", "delete"}
    /\ Fault(1)
    /\ \E j \in FileIds :
          src' = [src EXCEPT ![Cur(1)].files[j] = File(clock, Rewritten(Cur(1), j))]
    /\ UNCHANGED <<clock, src0, dst, dstDirs, logDirs, inVars, mgrVars, runVars,
                   histVars, born, cliVars>>
    /\ UNCHANGED manifestVars

\* One run that verifies and deletes, beside a process that writes into the
\* source.
InitWriter ==
    /\ config_file \in {c \in RunConfigs : /\ Cardinality(DOMAIN c) = 7
                                           /\ c.verify_copy /\ c.delete_source}
    /\ src \in Trees(config_file)
    /\ config_overrides = [r \in Runs |-> EmptyDict]
    /\ arrival = [r \in Runs |-> 0]
    /\ faults = 0
    /\ InitRest
    /\ ManifestIdle
    /\ CliIdle

NextWriter == RunStep(1) \/ Writer

SpecWriter == InitWriter /\ [][NextWriter]_vars

\* ------------------------------------------------------ the command line
\* main, after the manager is constructed from the file and the overrides:
\* both roots must be set and the source root must exist, else exit status
\* 1; then the destination root is made.
Validate ==
    /\ cli = "start"
    /\ pc[1] = "ready"
    /\ cli' = IF config[1].src_dir = "" \/ config[1].dst_dir = "" THEN "exit1"
              ELSE IF ~srcExists THEN "exit1"
              ELSE "validated"
    /\ UNCHANGED <<fsVars, inVars, mgrVars, runVars, histVars, born, srcExists>>
    /\ UNCHANGED manifestVars

\* main calls run_backup.  A run whose destination root is its source root
\* is followed up to the end of its scan only.
CliRun ==
    /\ cli = "validated"
    /\ \/ RunBackup(1)
       \/ /\ config[1].src_dir # config[1].dst_dir
          /\ \/ BeginSubfolder(1) \/ CopyFile(1) \/ VerifyFile(1)
             \/ SafeDelete(1) \/ GenerateReport(1)

\* main returns after run_backup has returned, and exits with status 1 on
\* any exception.
CliExit ==
    /\ cli = "validated"
    /\ Ended(1)
    /\ cli' = IF pc[1] = "returned" THEN "exit0" ELSE "exit1"
    /\ UNCHANGED <<fsVars, inVars, mgrVars, runVars, histVars, born, srcExists>>
    /\ UNCHANGED manifestVars

\* The roots a command line is tried on: unset (""), the source root s, the
\* destination root d; given by the file and possibly by --src and --dst.
CliConfigs ==
    {Update(c, [src_dir |-> sd, dst_dir |-> dd]) :
        c \in {x \in RunConfigs : Cardinality(DOMAIN x) = 7 /\ x.excluded_patterns = {}},
        sd \in {"", "s"}, dd \in {"", "d", "s"}}
CliOverrides ==
    {EmptyDict, [src_dir |-> "s"], [dst_dir |-> "d"], [dst_dir |-> "s"]}

InitCli ==
    /\ config_file \in CliConfigs
    /\ src \in Trees(config_file)
    /\ config_overrides \in
           {[r \in Runs |-> IF r = 1 THEN o ELSE EmptyDict] : o \in CliOverrides}
    /\ arrival = [r \in Runs |-> 0]
    /\ faults = MaxFaults - 1
    /\ InitRest
    /\ ManifestIdle
    /\ cli = "start"
    /\ srcExists \in BOOLEAN

NextCli == Construct(1) \/ Validate \/ CliRun \/ CliExit

SpecCli == InitCli /\ [][NextCli]_vars

\* ===================================================== properties
\* What a run has decided so far.
Candidates(r) == SeqToSet(path_subfolders[r])
Succeeded(r) == SeqToSet(successful_backups[r])
Failed(r) == SeqToSet(failed_backups[r])
DeleteEnabled(r) == "delete_source" \in DOMAIN config[r] /\ config[r].delete_source
VerifyEnabled(r) == "verify_copy" \in DOMAIN config[r] /\ config[r].verify_copy
\* Run r is through with candidate i, its deletion step included.
Done(r, i) ==
    /\ i \in Succeeded(r) \cup Failed(r)
    /\ ~(pc[r] = "delete" /\ Cur(r) = i)
\* The source subfolder i as a whole is gone / is no longer what it was.
Removed(i) == src0[i].kind = "dir" /\ src[i].kind = "gone"
Touched(i) == src[i] # src0[i]
Files0(i) == {j \in FileIds : src0[i].files[j].there}

\* ---------------------------------------------------------------- C1
\* C1 as stated: once a run is through with a candidate, the source
\* subfolder has been removed if and only if its backup succeeded and
\* delete_source is enabled.
C1_RemovedIffSucceeded ==
    \A i \in SubIds :
        Done(1, i) => (Removed(i) <=> (i \in Succeeded(1) /\ DeleteEnabled(1)))

\* C1 amended: nothing of a source subfolder is ever removed unless its
\* backup succeeded and delete_source is enabled; once the run is through
\* with a candidate, removal has been attempted exactly when its backup
\* succeeded and delete_source is enabled, and the subfolder is gone exactly
\* when, in addition, the removal did not raise.
C1_RemovalAttemptedIffSucceeded ==
    \A i \in SubIds :
        /\ Touched(i) => (i \in Succeeded(1) /\ DeleteEnabled(1))
        /\ Done(1, i) =>
              /\ i \in rmtreeCalled[1] <=> (i \in Succeeded(1) /\ DeleteEnabled(1))
              /\ Removed(i) <=> /\ i \in Succeeded(1)
                                /\ DeleteEnabled(1)
                                /\ i \notin rmtreeRaised[1]

\* A run with delete_source enabled that removed one subfolder after its
\* success and left a failed one in place.
C1_Witness ==
    /\ DeleteEnabled(1)
    /\ \E i, k \in SubIds :
          /\ Done(1, i) /\ i \in Succeeded(1) /\ Removed(i)
          /\ Done(1, k) /\ k \in Failed(1) /\ ~Touched(k)

\* ---------------------------------------------------------------- C2
\* The state part of C2: with verify_copy and delete_source enabled, a
\* source subfolder that is no longer intact has had every file compared
\* equal, by MD5, with a copy that is in the destination; a candidate with a
\* mismatching file is a failed backup left intact; and every other candidate
\* the run is through with after a success is gone, unless its removal raised.
C2_State ==
    (VerifyEnabled(1) /\ DeleteEnabled(1)) =>
        \A i \in SubIds :
            /\ Touched(i) =>
                  \A j \in Files0(i) :
                      /\ <<i, j>> \in verifiedEq[1]
                      /\ DstKey(1, i, j) \in DOMAIN dst
                      /\ Md5(dst[DstKey(1, i, j)].data) = Md5(src0[i].files[j].data)
            /\ i \in mismatched[1] =>
                  /\ ~Touched(i)
                  /\ i \in Failed(1) /\ i \notin Succeeded(1)
                  /\ i \notin rmtreeCalled[1]
            /\ (Done(1, i) /\ i \in Succeeded(1) /\ i \notin rmtreeRaised[1]) =>
                  Removed(i)

\* The step part of C2: a step that changes a source subfolder starts from a
\* state in which every file of it has already been compared equal with its
\* copy, and the copy's digest is that of the file about to be removed.
C2_Step ==
    (VerifyEnabled(1) /\ DeleteEnabled(1)) =>
        \A i \in SubIds :
            src'[i] # src[i] =>
                \A j \in FilesOf(i) :
                    /\ <<i, j>> \in verifiedEq[1]
                    /\ DstKey(1, i, j) \in DOMAIN dst
                    /\ Md5(dst[DstKey(1, i, j)].data) = Md5(src[i].files[j].data)

\* C2: with verify_copy and delete_source enabled, a source subfolder is
\* removed only after every file in it has been copied and the MD5 of each
\* copy has been compared equal to the MD5 of its source file; one mismatching
\* file leaves its subfolder in place and recorded as failed, while the other
\* subfolders are still removed.
C2_RemovedOnlyAfterVerified == []C2_State /\ [][C2_Step]_vars

\* A finished run in which one subfolder had a mismatching copy and stayed,
\* and another one, holding files, was verified and removed.
C2_Witness ==
    /\ VerifyEnabled(1) /\ DeleteEnabled(1)
    /\ pc[1] = "returned"
    /\ \E i, k \in SubIds :
          /\ i \in mismatched[1] /\ src[i] = src0[i] /\ i \in Failed(1)
          /\ Removed(k) /\ Files0(k) # {}

\* ---------------------------------------------------------------- C5
\* C5 as stated: a failure on one subfolder never aborts the run; when
\* run_backup ends, every candidate has been processed and is counted exactly
\* once, as a success or as a failure.
C5_EveryCandidateCountedOnce ==
    Ended(1) =>
        \A i \in Candidates(1) :
            Count(successful_backups[1], i) + Count(failed_backups[1], i) = 1

\* --------------------------------------------------------------- C10
\* The backup of candidate i by run r went through: the destination
\* directory was made, every file was copied and, if asked for, compared
\* equal.
Completed(r, i) ==
    /\ "verify_copy" \in DOMAIN config[r]
    /\ DstKey(r, i, 0) \in dstDirs
    /\ \A j \in Files0(i) :
          /\ DstKey(r, i, j) \in DOMAIN dst
          /\ VerifyEnabled(r) => <<i, j>> \in verifiedEq[r]
\* The report of run r is the single one and says what happened.
ReportRight(r) ==
    /\ Len(report[r]) = 1
    /\ LET rep == report[r][1]
       IN /\ rep.start_time = start_time[r]
          /\ rep.end_time = clock
          /\ rep.end_time >= rep.start_time
          /\ rep.duration = rep.end_time - rep.start_time
          /\ rep.successful = Cardinality({i \in Candidates(r) : Completed(r, i)})
          /\ rep.failed = Cardinality({i \in Candidates(r) : ~Completed(r, i)})
          /\ rep.successful + rep.failed = Len(path_subfolders[r])
          /\ SeqToSet(rep.failed_files) = {i \in Candidates(r) : ~Completed(r, i)}
          /\ Len(rep.failed_files) = rep.failed

\* C10 as stated: every run that returns has emitted exactly one report
\* with start time, end time, duration, the two counts adding up to the
\* number of candidates, and exactly the failed candidates listed.
C10_EveryRunReports == pc[1] = "returned" => ReportRight(1)

\* C10 amended: a run that returns after its scan found at least one
\* candidate has emitted exactly one such report; a run whose scan found no
\* candidate returns without emitting a report.
C10_ReportUnlessNoCandidate ==
    pc[1] = "returned" =>
        IF path_subfolders[1] = <<>> THEN report[1] = <<>> ELSE ReportRight(1)

\* A returned run that reported one success and one failure.
C10_Witness ==
    /\ pc[1] = "returned"
    /\ Len(report[1]) = 1
    /\ report[1][1].successful = 1
    /\ report[1][1].failed = 1

\* ---------------------------------------------------------------- C3
\* The scan of run r has returned its list.
ScanDone(r) == pc[r] \in {"next", "returned"}
\* Some file of subfolder i was modified within the window before the scan.
RecentIn(r, i) ==
    \E j \in FileIds :
        /\ src[i].files[j].there
        /\ start_time[r] - src[i].files[j].mtime <
               backup_age_seconds[r] * TicksPerSecond

\* C3 as stated: an immediate subdirectory that no pattern excludes is a
\* candidate if and only if no file inside it, at any depth, was modified
\* within the eligibility window.
C3_CandidateIffNoRecentFile ==
    ScanDone(1) =>
        \A i \in SubIds :
            (IsDir(i) /\ ~Excluded(1, i)) =>
                (i \in Candidates(1) <=> ~RecentIn(1, i))

\* C3 amended: a scan that raises while iterating the source root returns
\* no candidate at all; in a scan that completes, an immediate subdirectory
\* that no pattern excludes is a candidate if and only if no file inside it,
\* at any depth, was modified within the window and probing its files raised
\* no error; so a subdirectory without files is a candidate and one recent
\* file anywhere inside keeps the whole subdirectory out.
C3_CandidateIffNoRecentFileNoError ==
    ScanDone(1) =>
        /\ scanAborted[1] => path_subfolders[1] = <<>>
        /\ ~scanAborted[1] =>
              \A i \in SubIds :
                  /\ (IsDir(i) /\ ~Excluded(1, i)) =>
                        (i \in Candidates(1) <=>
                            (~RecentIn(1, i) /\ i \notin probeErr[1]))
                  /\ (IsDir(i) /\ ~Excluded(1, i) /\ Files0(i) = {}) =>
                        i \in Candidates(1)
                  /\ RecentIn(1, i) => i \notin Candidates(1)

\* A completed scan that took a subdirectory without files and left out one
\* whose only recent file is the last (the deepest) one.
C3_Witness ==
    /\ ScanDone(1) /\ ~scanAborted[1]
    /\ \E i, k \in SubIds :
          /\ IsDir(i) /\ Files0(i) = {} /\ i \in Candidates(1)
          /\ IsDir(k) /\ ~Excluded(1, k) /\ k \notin Candidates(1)
          /\ k \notin probeErr[1]
          /\ \A j \in Files0(k) :
                (start_time[1] - src[k].files[j].mtime <
                     backup_age_seconds[1] * TicksPerSecond) <=> j = MaxFiles

\* ---------------------------------------------------------------- C4
\* The name of subfolder i matches pattern p taken as one glob.
NameMatches(i, p) == FnMatch(Name(i), p)
\* The path of subfolder i matches pattern p part by part from the right:
\* the name against the last part, the source root against the part before.
TailMatches(i, p) ==
    LET pp == PatternParts(p)
    IN \/ Len(pp) = 1 /\ FnMatch(Name(i), pp[1])
       \/ Len(pp) = 2 /\ FnMatch(<<"s">>, pp[1]) /\ FnMatch(Name(i), pp[2])
\* Subfolder i would be a candidate but for the patterns.
Eligible(r, i) == IsDir(i) /\ ~RecentIn(r, i) /\ i \notin probeErr[r]

\* C4 as stated: a subdirectory whose name matches a pattern is never a
\* candidate, and the name alone decides: an otherwise eligible subdirectory
\* is left out exactly when its name matches at least one pattern.
C4_ExcludedIffNameMatches ==
    (ScanDone(1) /\ ~scanAborted[1]) =>
        \A i \in SubIds :
            /\ (\E p \in config[1].excluded_patterns : NameMatches(i, p)) =>
                  i \notin Candidates(1)
            /\ Eligible(1, i) =>
                  (i \notin Candidates(1) <=>
                      \E p \in config[1].excluded_patterns : NameMatches(i, p))

\* C4 amended: a subdirectory whose path matches a pattern the way
\* PurePath.match does (the pattern's parts against the last parts of the
\* path, so the name alone for a pattern without separator, the name and the
\* names of its parents for a pattern with separators) is never a candidate,
\* whatever the age of its files; in a scan that completes, an otherwise
\* eligible subdirectory is left out exactly when its path matches so.
C4_ExcludedIffPathMatches ==
    ScanDone(1) =>
        \A i \in SubIds :
            /\ (\E p \in config[1].excluded_patterns : TailMatches(i, p)) =>
                  i \notin Candidates(1)
            /\ (~scanAborted[1] /\ Eligible(1, i)) =>
                  (i \notin Candidates(1) <=>
                      \E p \in config[1].excluded_patterns : TailMatches(i, p))

\* A completed scan that left out an eligible subdirectory whose name does
\* not match the pattern, which names its parent.
C4_Witness ==
    /\ ScanDone(1) /\ ~scanAborted[1]
    /\ config[1].excluded_patterns = {PatSrcStar}
    /\ \E i \in SubIds :
          /\ Eligible(1, i)
          /\ ~NameMatches(i, PatSrcStar)
          /\ i \notin Candidates(1)

\* ---------------------------------------------------------------- C6
\* The run-scoped subtrees of the destination that run r wrote into.
Subtrees(r) == {k[1] : k \in wrote[r]}

Compared == outcome \in {"passed", "failed", "raised"}
ManifestPaths == DOMAIN md5_dict[1] \cup DOMAIN md5_dict[2]
RowsOf(df, f) == {n \in DOMAIN df : df[n].file = f}

\* C7 as stated: for every pair of manifests, empty ones included,
\* compare_md5 builds a table in which every path of either manifest has
\* exactly one row and no other path has one, and a path that only one
\* manifest has is among the mismatches.
C7_EveryPathInOneRow ==
    Compared =>
        /\ outcome # "raised"
        /\ \A f \in ManifestPaths : Cardinality(RowsOf(df_md5, f)) = 1
        /\ \A n \in DOMAIN df_md5 : df_md5[n].file \in ManifestPaths
        /\ \A f \in ManifestPaths :
              (f \notin DOMAIN md5_dict[1] \/ f \notin DOMAIN md5_dict[2]) =>
                  RowsOf(df_md5_diff, f) # {}

\* ---------------------------------------------------------------- C8
\* C8: in the table of a comparison that returned, a row is among the
\* mismatches if and only if it is not the case that both digests are present
\* and equal; the comparison says passed if and only if there is no
\* mismatch; and the manifests {a: d1, b: d2} and {a: d1, c: d3} give a
\* matching, b and c mismatched and the verdict failed.
C8_MismatchIffNotBothEqual ==
    (Compared /\ outcome # "raised") =>
        /\ \A n \in DOMAIN df_md5 :
              (\E m \in DOMAIN df_md5_diff : df_md5_diff[m] = df_md5[n]) <=>
                  ~(/\ df_md5[n].md5_1 # NaN
                    /\ df_md5[n].md5_2 # NaN
                    /\ df_md5[n].md5_1 = df_md5[n].md5_2)
        /\ \A m \in DOMAIN df_md5_diff :
              \E n \in DOMAIN df_md5 : df_md5[n] = df_md5_diff[m]
        /\ outcome = "passed" <=> df_md5_diff = <<>>
        /\ (/\ md5_dict[1] = (PathOf(1) :> DigestOf(1)) @@ (PathOf(2) :> DigestOf(2))
            /\ md5_dict[2] = (PathOf(1) :> DigestOf(1)) @@ (PathOf(3) :> DigestOf(3))) =>
              /\ outcome = "failed"
              /\ {df_md5[n].file : n \in DOMAIN df_md5} = {PathOf(1), PathOf(2), PathOf(3)}
              /\ {df_md5_diff[m].file : m \in DOMAIN df_md5_diff} = {PathOf(2), PathOf(3)}

\* The comparison of {a: d1, b: d2} with {a: d1, c: d3} has returned.
C8_Witness ==
    /\ Compared /\ outcome # "raised"
    /\ md5_dict[1] = (PathOf(1) :> DigestOf(1)) @@ (PathOf(2) :> DigestOf(2))
    /\ md5_dict[2] = (PathOf(1) :> DigestOf(1)) @@ (PathOf(3) :> DigestOf(3))
    /\ Len(df_md5) = 3
    /\ Len(df_md5_diff) = 2

\* ---------------------------------------------------------------- C9
\* C9 as stated: writing a digest mapping and reading the file back gives
\* exactly the (path, digest) pairs of the mapping, spaces in paths included.
C9_ReadBackWhatWasWritten ==
    outcome = "read" =>
        {<<data[n].file, data[n].md5>> : n \in DOMAIN data} =
            {<<f, md5_dict[1][f]>> : f \in DOMAIN md5_dict[1]}

\* --------------------------------------------------------------- C11
\* The candidates that come after i in the list of run r.
After(r, i) ==
    {path_subfolders[r][n] : n \in {n \in DOMAIN path_subfolders[r] :
        \E m \in DOMAIN path_subfolders[r] : m < n /\ path_subfolders[r][m] = i}}

\* The state part of C11: a candidate whose removal raised is a success and
\* not a failure, the report counts it so, and the run ends only after the
\* candidates that come after it have been processed.
C11_State ==
    \A i \in rmtreeRaised[1] :
        /\ i \in Succeeded(1) /\ i \notin Failed(1)
        /\ pc[1] = "returned" =>
              /\ Len(report[1]) = 1
              /\ report[1][1].successful = Len(successful_backups[1])
              /\ i \notin SeqToSet(report[1][1].failed_files)
        /\ Ended(1) => After(1, i) \subseteq Succeeded(1) \cup Failed(1)

\* The step part of C11: the step in which a removal raises leaves both lists
\* as they are and takes the run to its next candidate, or to the report
\* after the last one.
C11_Step ==
    rmtreeRaised'[1] # rmtreeRaised[1] =>
        /\ successful_backups' = successful_backups
        /\ failed_backups' = failed_backups
        /\ pc'[1] = IF idx[1] < Len(path_subfolders[1]) THEN "next" ELSE "report"
        /\ idx'[1] = idx[1] + 1

\* C11: when removing the source of a successfully backed up candidate
\* raises, the candidate stays in the successful list and is counted as a
\* success in the report, and the run goes on with the next candidate.
C11_DeletionFailureKeepsSuccess == []C11_State /\ [][C11_Step]_vars

\* A returned run in which the removal of the first candidate raised and the
\* second candidate was processed all the same.
C11_Witness ==
    /\ pc[1] = "returned"
    /\ \E i \in rmtreeRaised[1] :
          /\ After(1, i) # {}
          /\ After(1, i) \subseteq Succeeded(1) \cup Failed(1)
          /\ report[1][1].successful >= 1

\* --------------------------------------------------------------- C12
OptionalKeys == {"excluded_patterns", "verify_copy", "delete_source", "backup_age_days"}
\* run_backup was left by a KeyError: before the loop or inside it (an
\* exception after the loop comes from writing the report).
KeyErrorRaised(r) ==
    /\ pc[r] = "raised"
    /\ path_subfolders[r] = <<>> \/ idx[r] <= Len(path_subfolders[r])

\* C12 as stated: a run whose configuration omits an optional key meets
\* no missing-key error, in the scan or in a candidate's pipeline: run_backup
\* is not left by a KeyError, no candidate fails while the environment does
\* not, a run without delete_source removes nothing, and a run without
\* backup_age_days uses a window of thirty days.
C12_DefaultsApply ==
    (pc[1] # "new" /\ ~(OptionalKeys \subseteq DOMAIN config[1])) =>
        /\ ~KeyErrorRaised(1)
        /\ faults = 0 => Failed(1) = {}
        /\ "delete_source" \notin DOMAIN config[1] => \A i \in SubIds : ~Touched(i)
        /\ "backup_age_days" \notin DOMAIN config[1] =>
              backup_age_seconds[1] = 30 * 24 * 60 * 60

\* --------------------------------------------------------------- C13
\* The two roots are set and distinct and the source root exists.
ValidPolicy ==
    /\ config[1].src_dir # ""
    /\ config[1].dst_dir # ""
    /\ config[1].src_dir # config[1].dst_dir
    /\ srcExists

\* C13 as stated: the command line starts run_backup only when both roots
\* are set and distinct and the source root exists; otherwise it exits with
\* a non-zero status, and nothing has been copied or deleted.
C13_RunOnlyWhenValid ==
    (cli # "start" /\ ~ValidPolicy) =>
        /\ cli = "exit1"
        /\ pc[1] = "ready"
        /\ wrote[1] = {} /\ dst = [k \in {} |-> NoFile]
        /\ src = src0

\* --------------------------------------------------------------- C14
\* The destination of the nested directory k of subfolder i.
DstDirKey(r, i, k) == <<timestamp[r], i, 0 - k>>

\* C14 as stated: once backup_subfolder has returned success for a
\* candidate, every file and every directory of it, nested directories
\* without files included, has its counterpart under
\* dst_dir/timestamp/relative path, and the run wrote nothing outside the
\* destinations of its candidates.
C14_FullContentsAtDestination ==
    /\ \A i \in Succeeded(1) :
          /\ DstKey(1, i, 0) \in dstDirs
          /\ \A j \in Files0(i) : DstKey(1, i, j) \in DOMAIN dst
          /\ \A k \in src0[i].dirs : DstDirKey(1, i, k) \in dstDirs
    /\ \A w \in wrote[1] : w[1] = timestamp[1] /\ w[2] \in Candidates(1)

\* --------------------------------------------------------------- C15
\* The backup of candidate i by run r failed in its copy loop: its
\* destination directory was made, and a file of it was not copied.
CopyFailed(r, i) ==
    /\ i \in Failed(r)
    /\ DstKey(r, i, 0) \in dstDirs
    /\ \E j \in Files0(i) : DstKey(r, i, j) \notin DOMAIN dst

\* The state part of C15: a candidate that failed in its copy loop is a
\* failure and no success, the files copied are those listed before the one
\* that failed, none of its files was verified, and its source is as it was.
C15_State ==
    \A i \in SubIds :
        CopyFailed(1, i) =>
            /\ i \notin Succeeded(1)
            /\ \E j0 \in Files0(i) :
                  \A j \in Files0(i) : DstKey(1, i, j) \in DOMAIN dst <=> j < j0
            /\ \A j \in FileIds : <<i, j>> \notin verifiedEq[1]
            /\ i \notin rmtreeCalled[1]
            /\ src[i] = src0[i]

\* The step part of C15: no step takes a copy away from the destination, and
\* no step copies or verifies a file of a candidate that has already failed.
C15_Step ==
    /\ \A k \in DOMAIN dst : k \in DOMAIN dst' /\ dst'[k] = dst[k]
    /\ \A k \in DOMAIN dst' : k \notin DOMAIN dst => k[2] \notin Failed(1)
    /\ \A v \in verifiedEq'[1] : v \notin verifiedEq[1] => v[1] \notin Failed(1)

\* C15: when copying one file of a candidate fails, the whole candidate is a
\* failure, the files already copied stay at the destination, no further
\* file of it is copied or verified, and its source is left intact.
C15_PartialFailureKeepsCopies == []C15_State /\ [][C15_Step]_vars

\* A finished run in which the copy of the second file of a candidate failed
\* after the first one had been copied.
C15_Witness ==
    /\ Ended(1)
    /\ \E i \in SubIds :
          /\ CopyFailed(1, i)
          /\ Cardinality(Files0(i)) >= 2
          /\ DstKey(1, i, 1) \in DOMAIN dst

\* --------------------------------------------------------------- C16
\* C16: an error raised while probing the files of a subfolder keeps that
\* subfolder out of the candidates and does not abort the scan: every other
\* immediate subdirectory is still evaluated, and is returned exactly when
\* no pattern excludes it and none of its files is recent.
C16_ProbeErrorSkipsOneSubfolder ==
    (ScanDone(1) /\ probeErr[1] # {}) =>
        /\ ~scanAborted[1]
        /\ \A i \in probeErr[1] : i \notin Candidates(1)
        /\ \A k \in SubIds \ probeErr[1] :
              k \in Candidates(1) <=>
                  (IsDir(k) /\ ~Excluded(1, k) /\ ~RecentIn(1, k))

\* A scan in which probing one subfolder raised and that returned another
\* subfolder all the same.
C16_Witness ==
    /\ ScanDone(1)
    /\ \E i \in probeErr[1], k \in Candidates(1) : i # k /\ ~RecentIn(1, i)

\* --------------------------------------------------------------- C17
VerifyDisabled(r) == "verify_copy" \in DOMAIN config[r] /\ ~config[r].verify_copy
\* Every file of subfolder i has its copy from run r.
AllCopied(r, i) == \A j \in FilesOf(i) : DstKey(r, i, j) \in DOMAIN dst

\* The state part of C17: while a candidate is being copied none of its
\* files has been verified, and while it is being verified all of its files
\* are copied; with verify_copy disabled nothing is ever verified and a
\* candidate is a success from the moment its directory is made and all its
\* files are copied.
C17_State ==
    /\ pc[1] = "copy" =>
          /\ \A j \in FileIds : <<Cur(1), j>> \notin verifiedEq[1]
          /\ Cur(1) \notin mismatched[1]
    /\ pc[1] = "verify" => AllCopied(1, Cur(1))
    /\ VerifyDisabled(1) =>
          /\ pc[1] # "verify"
          /\ verifiedEq[1] = {} /\ mismatched[1] = {}
          /\ \A i \in Candidates(1) :
                (DstKey(1, i, 0) \in dstDirs /\ \A j \in Files0(i) :
                     DstKey(1, i, j) \in DOMAIN dst) => i \in Succeeded(1)

\* The step part of C17: a step that verifies a file starts with every file
\* of the candidate copied and copies nothing, and a step that copies a file
\* of a candidate verifies nothing.
C17_Step ==
    /\ (verifiedEq' # verifiedEq \/ mismatched' # mismatched) =>
          /\ pc[1] = "verify"
          /\ AllCopied(1, Cur(1))
          /\ dst' = dst
    /\ dst' # dst => (verifiedEq' = verifiedEq /\ mismatched' = mismatched)

\* C17: with verify_copy enabled no file of a candidate is verified before
\* every file of it has been copied, the two passes never interleave; with
\* verify_copy disabled no digest is computed and the candidate succeeds as
\* soon as all its files are copied.
C17_CopyThenVerify == []C17_State /\ [][C17_Step]_vars

\* A candidate of two files in its verification pass, the first file
\* verified.
C17_Witness ==
    /\ pc[1] = "verify"
    /\ Cardinality(FilesOf(Cur(1))) >= 2
    /\ <<Cur(1), 1>> \in verifiedEq[1]

\* --------------------------------------------------------------- C18
\* A step takes away a source file only if the destination holds, under the
\* run's timestamp, a copy with the content the file has at that moment.
C18_Step ==
    (VerifyEnabled(1) /\ DeleteEnabled(1)) =>
        \A i \in SubIds : \A j \in FileIds :
            (src[i].files[j].there /\ ~src'[i].files[j].there) =>
                /\ DstKey(1, i, j) \in DOMAIN dst
                /\ dst[DstKey(1, i, j)].data = src[i].files[j].data

\* C18 as stated: even when another process creates or modifies files
\* inside a candidate after its files were listed, a run with delete_source
\* never removes a source file whose current content has no identical copy
\* at the destination.
C18_NoLossUnderConcurrentWriter == [][C18_Step]_vars

\* --------------------------------------------------------------- C19
\* Some file of subfolder i, as it was at first, was modified within the
\* window before the scan.
RecentIn0(r, i) ==
    \E j \in Files0(i) :
        start_time[r] - src0[i].files[j].mtime < backup_age_seconds[r] * TicksPerSecond

\* C19: a run never removes or modifies a source item that is not one of
\* its candidates or whose backup failed: subfolders that a pattern
\* excludes, subfolders with a recent file, regular files in the source root,
\* anything the scan did not return, and failed candidates are as they were.
C19_NonCandidatesUntouched ==
    pc[1] # "new" =>
        \A i \in SubIds :
            (\/ src0[i].kind = "file"
             \/ "excluded_patterns" \in DOMAIN config[1] /\ Excluded(1, i)
             \/ RecentIn0(1, i)
             \/ pc[1] # "ready" /\ i \notin Candidates(1)
             \/ i \in Failed(1)) =>
                src[i] = src0[i]

\* A finished run that removed a candidate and left alone a subfolder that a
\* pattern excludes.
C19_Witness ==
    /\ pc[1] = "returned"
    /\ "excluded_patterns" \in DOMAIN config[1]
    /\ \E i, k \in SubIds :
          /\ Excluded(1, i) /\ src0[i].kind = "dir" /\ ~RecentIn0(1, i)
          /\ src[i] = src0[i]
          /\ Removed(k)

\* --------------------------------------------------------------- C20
\* The backup of candidate i by run r failed because computing a digest
\* raised: every file was copied, no digests were found to differ, and yet
\* the candidate failed its verification pass.
VerifyErrored(r, i) ==
    /\ VerifyEnabled(r)
    /\ i \in Failed(r)
    /\ DstKey(r, i, 0) \in dstDirs
    /\ \A j \in Files0(i) : DstKey(r, i, j) \in DOMAIN dst
    /\ i \notin mismatched[r]

\* The state part of C20: such a candidate is no success, no removal of
\* its source was attempted, and its source is as it was.
C20_State ==
    \A i \in SubIds :
        VerifyErrored(1, i) =>
            /\ i \notin Succeeded(1)
            /\ i \notin rmtreeCalled[1]
            /\ src[i] = src0[i]

\* The step part of C20: a turn of the verification loop that finds the
\* digests neither equal nor different (computing one of them raised)
\* records the candidate as failed, not as a success, goes on to the next
\* candidate without deleting, and leaves the source alone.
C20_Step ==
    (/\ pc[1] = "verify"
     /\ verifiedEq' = verifiedEq
     /\ mismatched' = mismatched) =>
        /\ failed_backups'[1] = Append(failed_backups[1], Cur(1))
        /\ successful_backups' = successful_backups
        /\ pc'[1] \in {"next", "report"}
        /\ src' = src

\* C20: when computing the digest of the source or of the destination file
\* raises, verify_files returns False, the candidate is recorded as failed,
\* and its source is not deleted.
C20_VerificationFailsClosed == []C20_State /\ [][C20_Step]_vars

\* A finished run with delete_source enabled in which the verification of a
\* candidate holding files raised.
C20_Witness ==
    /\ Ended(1)
    /\ DeleteEnabled(1)
    /\ \E i \in SubIds :
          /\ VerifyErrored(1, i)
          /\ Files0(i) # {}
          /\ src[i] = src0[i]

\* --------------------------------------------------------------- C21
\* How long before the scan of run r file j of subfolder i was modified.
Age(r, i, j) == start_time[r] - src[i].files[j].mtime
\* The subfolders whose eligibility the scan of run r decided by age alone.
Probed(r) ==
    {i \in SubIds : IsDir(i) /\ ~Excluded(r, i) /\ i \notin probeErr[r]}

\* C21 as stated: a subfolder is eligible only if every file inside it is
\* strictly older than the window; a file exactly as old as the window, or,
\* with a window of zero days, modified at the instant of the scan, makes it
\* not eligible.
C21_EligibleIffStrictlyOlder ==
    (ScanDone(1) /\ ~scanAborted[1]) =>
        \A i \in Probed(1) :
            i \in Candidates(1) <=>
                \A j \in FilesOf(i) : Age(1, i, j) > WindowOf(config[1])

\* C21 amended: a subfolder is eligible exactly when every file inside it
\* is at least as old as the window (now - mtime >= backup_age_days * 86400
\* seconds); a file exactly as old as the window does not keep it out, so
\* with a window of zero days a file modified at the instant of the scan
\* does not keep it out either.
C21_EligibleIffAtLeastAsOld ==
    (ScanDone(1) /\ ~scanAborted[1]) =>
        \A i \in Probed(1) :
            /\ i \in Candidates(1) <=>
                  \A j \in FilesOf(i) : Age(1, i, j) >= WindowOf(config[1])
            /\ (\A j \in FilesOf(i) :
                    Age(1, i, j) = Get(config[1], "backup_age_days", 30) * 86400
                                       * TicksPerSecond) =>
                  i \in Candidates(1)

\* A completed scan that returned a subfolder holding a file exactly as old
\* as the window.
C21_Witness ==
    /\ ScanDone(1) /\ ~scanAborted[1]
    /\ \E i \in Probed(1) :
          /\ i \in Candidates(1)
          /\ \E j \in FilesOf(i) : Age(1, i, j) = WindowOf(config[1])

\* ------------------------------------------- configuration after __init__
\* BackupManager.update_config: self.config.update(updates), nothing else.
update_config(r) ==
    /\ pc[r] = "ready"
    /\ \E updates \in {[backup_age_days |-> a] : a \in {0, 1}} :
          config' = [config EXCEPT ![r] = Update(config[r], updates)]
    /\ config'[r] # config[r]
    /\ UNCHANGED <<fsVars, inVars, timestamp, backup_age_seconds, log_file,
                   runVars, histVars, born, cliVars>>
    /\ UNCHANGED manifestVars

\* main of backup.py: the command line's values are assigned into
\* manager.config one key at a time (--no-verify, --delete-source).
AssignConfig(r) ==
    /\ pc[r] = "ready"
    /\ \E updates \in {[verify_copy |-> FALSE], [delete_source |-> TRUE]} :
          config' = [config EXCEPT ![r] = Update(config[r], updates)]
    /\ config'[r] # config[r]
    /\ UNCHANGED <<fsVars, inVars, timestamp, backup_age_seconds, log_file,
                   runVars, histVars, born, cliVars>>
    /\ UNCHANGED manifestVars

\* A manager built from a file without patterns, with a window of no days,
\* of one day or the default one, possibly overridden at construction, and
\* reconfigured any number of times before its scan.
UpdateConfigs ==
    {c \in ScanConfigs : "excluded_patterns" \in DOMAIN c /\ c.excluded_patterns = {}}

InitUpdate ==
    /\ config_file \in UpdateConfigs
    /\ src \in ScanTrees(config_file)
    /\ config_overrides \in
           {[r \in Runs |-> IF r = 1 THEN o ELSE EmptyDict] :
               o \in {EmptyDict, [backup_age_days |-> 0], [backup_age_days |-> 1]}}
    /\ arrival = [r \in Runs |-> 0]
    /\ faults = 0
    /\ InitRest
    /\ ManifestIdle
    /\ CliIdle

NextUpdate == Construct(1) \/ update_config(1) \/ AssignConfig(1) \/ RunBackup(1)

SpecUpdate == InitUpdate /\ [][NextUpdate]_vars

\* C22: at every scan the window that the scan has used is the current
\* backup_age_days of the configuration (30 when the key is absent) times
\* 86400 seconds, whatever overrides, update_config calls and assignments
\* came before the scan.
C22_WindowFollowsConfig ==
    ScanDone(1) =>
        backup_age_seconds[1] =
            Get(config[1], "backup_age_days", DefaultAgeDays) * SecondsPerDay

\* --------------------------------------------------- run_md5_compare
\* The regular files of a tree over the first two paths: each absent, or
\* present with one of the contents, readable or not.
TreeChoices ==
    UNION {[S -> {TreeFile(d, ok) : d \in 1..MaxDigests, ok \in BOOLEAN}] :
              S \in SUBSET {PathOf(1), PathOf(2)}}

\* Two trees are digested, the mappings written, and the files compared.
InitBatch ==
    /\ BackupIdle
    /\ tree \in [1..2 -> TreeChoices]
    /\ hashed = {}
    /\ md5_dict = [k \in 1..2 |-> EmptyDict]
    /\ md5_file = [k \in 1..2 |-> [exists |-> FALSE, lines |-> <<>>]]
    /\ data = <<>>
    /\ df_md5 = <<>>
    /\ df_md5_diff = <<>>
    /\ outcome = "none"

NextBatch ==
    \/ \E k \in 1..2 : CalculateMd5Batch(k)
    \/ \E k \in 1..2 : WriteManifest(k)
    \/ CompareMd5

SpecBatch == InitBatch /\ [][NextBatch]_vars

\* The paths that md5sum cannot read in either tree.
UnreadableInBoth ==
    {p \in (DOMAIN tree[1]) \cap (DOMAIN tree[2]) :
        ~tree[1][p].readable /\ ~tree[2][p].readable}

\* C23: the mapping computed for a tree has an entry for every regular file
\* of the tree and for nothing else, also for a file whose digest could not
\* be computed; and the comparison does not pass when some file cannot be
\* read in either tree.
C23_ManifestComplete ==
    /\ \A k \in hashed : DOMAIN md5_dict[k] = DOMAIN tree[k]
    /\ outcome = "passed" => UnreadableInBoth = {}

\* --------------------------------------------------------------- C24
\* Run r was given a log_dir override and every optional key is configured.
LogDirOverridden(r) ==
    /\ "log_dir" \in DOMAIN config_overrides[r]
    /\ OptionalKeys \subseteq DOMAIN config[r]
\* Run r has raised with every candidate already recorded: the exception
\* came out of generate_report.
ReportRaised(r) ==
    /\ pc[r] = "raised"
    /\ path_subfolders[r] # <<>>
    /\ Len(successful_backups[r]) + Len(failed_backups[r]) = Len(path_subfolders[r])

\* C24: a run that is given a log_dir override keeps its log file in the
\* overridden directory, and its report does not fail to be written there
\* once candidates have been copied.
C24_AuditFilesFollowOverride ==
    (LogDirOverridden(1) /\ pc[1] # "new") =>
        /\ log_file[1] = config_overrides[1].log_dir
        /\ ~(ReportRaised(1) /\ wrote[1] # {})

====
